---- MODULE Spec2Model ----
(***************************************************************************)
(* Model of the Autonomous Decision & Execution Engine of src/index.js:    *)
(* the Action Executor (doAction), Behavioral Memory (updateActionMemory,  *)
(* detectStuckBehavior, getIntelligentOverride), the Decision Cycle        *)
(* (executeLLMDecision, the auto-mode timer, /decide, /act) and the Goal   *)
(* Scheduler (Goal, GoalSelector and the four goals).                      *)
(*                                                                         *)
(* One TLA+ step is one run-to-completion block of the JavaScript event    *)
(* loop: a handler runs from its entry (or from the await it was suspended *)
(* on) up to its next await or its return.                                 *)
(***************************************************************************)
EXTENDS Integers, Sequences, FiniteSets, TLC

\* ------------------------------------------------------------------ bounds
\* Number of handler invocations (timer cycles, /decide, /act) that can be
\* suspended at the same time.
MaxTasks == 2
\* CONFIG.intelligence.memoryDepth (50 in the source), scaled down.
MemoryDepth == 3
\* CONFIG.actionHistory.maxHistory (15 in the source), scaled down.
MaxHistory == 2
\* CONFIG.autoMode.maxActions (1000 in the source), scaled down.
MaxActions == 7
\* Largest number of tree blocks one MINE_TREE flood fill returns.
MaxTreeBlocks == 1
\* The clock stops advancing here.
MaxTime == 3
\* CONFIG.goalSystem.goalPersistence (30000 ms in the source), in tick
\* intervals, scaled down.
GoalPersistence == 1
\* Largest number of MineTreeGoal.mineTree calls pending at the same time.
MaxMining == 2
\* CONFIG.goalSystem.llmValidationInterval (5000 ms in the source), in tick
\* intervals, scaled down.
ValidationInterval == 3

\* Bounds the length of the goal registry when addGoal is called freely.
MaxGoals == 5
\* Largest distance, in blocks, between the bot and the target of a MINE_AT.
MaxDistance == 6
\* CONFIG.intelligence.proximityMiningDistance (3 in the source), scaled
\* down.
ProximityMiningDistance == 1
\* Half the height of the scanned box (2 in the source), scaled down.
ScanHeight == 0
\* Polls without progress before the GOTO case tries to unstuck (30 in the
\* source), scaled down.
StallPolls == 3
\* Polls that make up the 5000 ms before which a stalled GOTO is not given
\* up (50 polls of 100 ms in the source), scaled down.
BlockedAfterPolls == 5
\* Polls that make up the timeout of the GOTO case (at least 10000 ms, 100
\* polls, in the source), scaled down.
TimeoutPolls == 10
\* Largest number of tree blocks inside the scanned box.
MaxTreesNearby == 2

\* ------------------------------------------------------- program constants
stuckDetectionThreshold == 3
\* The literal of `if (distance > 5)` in the MINE_AT case, in blocks.
maxReach == 5
\* CONFIG.intelligence.proactiveActions switched off.
proactiveActionsOff == FALSE
proactiveActions == TRUE
behavioralOverrides == TRUE

\* JavaScript null, for a string-, an object- and a number-valued variable.
None == "null"
NoAction == [action |-> "null"]
NoTime == -1
Tasks == 1..MaxTasks

Min(a, b) == IF a < b THEN a ELSE b
Max(a, b) == IF a > b THEN a ELSE b

\* Last n elements of s (Array.prototype.slice(-n)).
SliceLast(s, n) == IF Len(s) <= n THEN s ELSE SubSeq(s, Len(s) - n + 1, Len(s))

\* Property access on a JavaScript object: an absent property is undefined.
Field(obj, f) == IF f \in DOMAIN obj THEN obj[f] ELSE "undefined"

ActionKinds == {"MOVE", "LOOK_AT", "GOTO", "MINE_AT", "MINE_TREE", "PLACE_AT",
                "ATTACK_NEAREST", "SELECT_HOTBAR", "EAT", "CRAFT"}

\* A validator that does not check the enum of action.
validateActionAnyKind(obj) ==
    /\ "action" \in DOMAIN obj
    /\ DOMAIN obj \subseteq {"action", "horizon_ms", "args"}
    /\ "horizon_ms" \in DOMAIN obj => (obj.horizon_ms >= 100 /\ obj.horizon_ms <= 5000)

\* ajv validator compiled from ACTION_JSON_SCHEMA.
validateAction(obj) ==
    /\ "action" \in DOMAIN obj
    /\ DOMAIN obj \subseteq {"action", "horizon_ms", "args"}
    /\ obj.action \in ActionKinds
    /\ "horizon_ms" \in DOMAIN obj => (obj.horizon_ms >= 100 /\ obj.horizon_ms <= 5000)

clamp(n, lo, hi) == Max(lo, Min(hi, n))

\* ------------------------------------------------------------------ state
VARIABLES
    currentAction,    \* the in-flight action object, or NoAction
    actionStartTime,  \* Date.now() when currentAction was set, or NoTime
    actionHistory,    \* sequence of history entries, oldest first
    botIntelligence,  \* actionMemory, consecutiveActions, flags, ...
    actionCount,      \* logger.actionCount, saturating at MaxActions
    autoModeTimer,    \* TRUE iff the auto-mode interval is armed
    tasks,            \* per handler invocation: where it is suspended
    now,              \* Date.now()
    recorded,         \* the keys passed to updateActionMemory: how many
                      \* (saturating) and the most recent ones
    goalSystem,       \* the GoalSelector: goals, activeGoals, lastTickTime,
                      \* sensorData
    goal,             \* per goal: priority, isActive, startTime
                      \* (lastTickTime is written by Goal.tick and never
                      \* read)
    goalLocal,        \* fields of the goal subclasses
    pass,             \* what the latest scheduler pass did: the goals it
                      \* found timed out, whether the target tree was
                      \* still standing, those that passed its activation
                      \* filter and the dynamic priority each goal had,
                      \* those it started (and in which order), those it
                      \* ticked, the one whose tick threw
    uncaught,         \* the goal whose tick threw an error nothing caught
                      \* (the process has exited), or None
    llmValidator,     \* the LLMGoalValidator: lastValidationTime, and the
                      \* number of consultLLM calls it is waiting for
    outcomes,         \* for each entry of botIntelligence.actionMemory, how
                      \* the doAction call of its Action ended ("pending":
                      \* it has not ended), kept by AttemptStart and
                      \* AttemptEnd
    scanned,          \* the tree blocks the latest block scan of
                      \* getIntelligentOverride found (offsets from the
                      \* bot) and the target of the MINE_TREE it returned,
                      \* kept by CycleScan
    movement,         \* the position poll of the GOTO case: the number of
                      \* polls made, stuckCounter, the number of unstuck
                      \* attempts, whether this poll made one, and how the
                      \* promise stands ("polling", "reached", "blocked",
                      \* "timeout"; "none": no poll is armed), kept by
                      \* GotoStart and GotoPoll
    mineAtFound,      \* what the MINE_AT case of the latest MineAt call found:
                      \* whether bot.blockAt returned a block other than
                      \* air, what bot.canDigBlock returned, the distance
                      \* from the bot to the target, and the error thrown
                      \* before the first await ("none": none was)
    output            \* what the latest step handed back to the outside:
                      \* the handler that finished, the stage it returned
                      \* from ("entry": before the policy source was asked,
                      \* "policy": on its answer, "doAction"), its result
                      \* and how its doAction call ended

\* What single cases of the handlers found and did, kept for the
\* specifications that look at one case on its own.
caseVars == <<mineAtFound, outcomes, scanned, movement>>

execVars == <<currentAction, actionStartTime, actionHistory, botIntelligence,
              actionCount, autoModeTimer, tasks, recorded, caseVars>>

schedVars == <<goalSystem, goal, goalLocal, pass, uncaught, llmValidator>>

\* The step finished no handler.
NoOutput == [handler |-> "none", stage |-> "none", result |-> "none",
             doAction |-> "none"]

Output(handler, stage, result, outcome) ==
    [handler |-> handler, stage |-> stage, result |-> result,
     doAction |-> outcome]

\* ------------------------------------------------------ Behavioral Memory
\* `${action.type}_${JSON.stringify(action.parameters || {})}`
actionKey(action) ==
    <<Field(action, "type"),
      IF "parameters" \in DOMAIN action THEN action.parameters ELSE "{}">>

\* An updateActionMemory that leaves the counters of the other keys alone.
updateActionMemoryKeepOthers(bi, action) ==
    LET actionKeyV == actionKey(action)
        pushed == Append(bi.actionMemory, [key |-> actionKeyV, action |-> action])
        trimmed == IF Len(pushed) > MemoryDepth THEN Tail(pushed) ELSE pushed
        old == bi.consecutiveActions
        incremented == (IF actionKeyV \in DOMAIN old THEN old[actionKeyV] ELSE 0) + 1
    IN  [bi EXCEPT !.actionMemory = trimmed,
                   !.consecutiveActions =
                       [k \in DOMAIN old \cup {actionKeyV} |->
                           IF k = actionKeyV THEN incremented ELSE old[k]]]

\* Entries are pushed with timestamp Date.now(); the model keeps their order
\* only (see recentMiningFailures).
updateActionMemory(bi, action) ==
    LET actionKeyV == actionKey(action)
        pushed == Append(bi.actionMemory, [key |-> actionKeyV, action |-> action])
        trimmed == IF Len(pushed) > MemoryDepth THEN Tail(pushed) ELSE pushed
        old == bi.consecutiveActions
        incremented == (IF actionKeyV \in DOMAIN old THEN old[actionKeyV] ELSE 0) + 1
    IN  [bi EXCEPT !.actionMemory = trimmed,
                   !.consecutiveActions =
                       [k \in DOMAIN old \cup {actionKeyV} |->
                           IF k = actionKeyV THEN incremented ELSE 0]]

\* detectStuckBehavior comparing the window length with > instead of >=.
detectStuckBehaviorStrict(bi) ==
    LET recentActions == SliceLast(bi.actionMemory, stuckDetectionThreshold)
    IN  /\ behavioralOverrides
        /\ Len(recentActions) > stuckDetectionThreshold
        /\ \A i \in 1..Len(recentActions) : recentActions[i].key = recentActions[1].key

\* The value detectStuckBehavior returns.
detectStuckBehavior(bi) ==
    LET recentActions == SliceLast(bi.actionMemory, stuckDetectionThreshold)
    IN  /\ behavioralOverrides
        /\ Len(recentActions) >= stuckDetectionThreshold
        /\ \A i \in 1..Len(recentActions) : recentActions[i].key = recentActions[1].key

\* botIntelligence after detectStuckBehavior has run.
detectStuckBehaviorEffect(bi) ==
    IF detectStuckBehavior(bi)
    THEN [bi EXCEPT !.isStuck = TRUE]
    ELSE bi

OverrideGoto == [action |-> "GOTO", args |-> "ok", horizon_ms |-> 1200]
OverrideMineTree == [action |-> "MINE_TREE", args |-> "ok", horizon_ms |-> 10000]

\* A reset that leaves the consecutive counters alone.
resetStuckKeepCounts(bi) ==
    [bi EXCEPT !.shouldOverride = TRUE,
               !.isStuck = FALSE]

\* contextState.lastOverrideTime is written here too; nothing reads it.
resetStuck(bi) ==
    [bi EXCEPT !.shouldOverride = TRUE,
               !.isStuck = FALSE,
               !.consecutiveActions = [k \in DOMAIN bi.consecutiveActions |-> 0]]

\* Timestamps never decrease along actionMemory, so the entries younger
\* than 60000 ms are a suffix of it: those from index firstRecent on.
recentMiningFailures(bi, firstRecent) ==
    LET recentActions == SliceLast(bi.actionMemory, 5)
        offset == Len(bi.actionMemory) - Len(recentActions)
    IN  Cardinality({i \in 1..Len(recentActions) :
            /\ Field(recentActions[i].action, "action") \in {"MINE_TREE", "MINE_AT"}
            /\ offset + i >= firstRecent})

\* getIntelligentOverride without the guard on behaviorFlags.isStuck.
getIntelligentOverrideUnguarded(bi, treesNearby, firstRecent) ==
    IF recentMiningFailures(bi, firstRecent) >= 3
    THEN [ret |-> OverrideGoto, bi |-> [resetStuck(bi) EXCEPT !.isExploring = TRUE]]
    ELSE IF treesNearby
    THEN [ret |-> OverrideMineTree, bi |-> resetStuck(bi)]
    ELSE [ret |-> OverrideGoto, bi |-> [resetStuck(bi) EXCEPT !.isExploring = TRUE]]

\* getIntelligentOverride: the action returned (ret) and botIntelligence
\* afterwards (bi).  treesNearby is the result of the block scan.
getIntelligentOverride(bi, treesNearby, firstRecent) ==
    IF ~behavioralOverrides \/ ~bi.isStuck
    THEN [ret |-> NoAction, bi |-> bi]
    ELSE IF recentMiningFailures(bi, firstRecent) >= 3
    THEN [ret |-> OverrideGoto, bi |-> [resetStuck(bi) EXCEPT !.isExploring = TRUE]]
    ELSE IF treesNearby
    THEN [ret |-> OverrideMineTree, bi |-> resetStuck(bi)]
    ELSE IF proactiveActions
    THEN [ret |-> OverrideGoto, bi |-> [resetStuck(bi) EXCEPT !.isExploring = TRUE]]
    ELSE [ret |-> NoAction, bi |-> bi]

\* The offsets the block scan visits: x and z within searchRadius, y within
\* the height of the box, as <<x, y, z>>.
ScanOffsets ==
    (-ProximityMiningDistance..ProximityMiningDistance)
        \X (-ScanHeight..ScanHeight)
        \X (-ProximityMiningDistance..ProximityMiningDistance)

\* offset a is visited before offset b by the loops over x, then y, then z.
scannedBefore(a, b) ==
    \/ a[1] < b[1]
    \/ a[1] = b[1] /\ a[2] < b[2]
    \/ a[1] = b[1] /\ a[2] = b[2] /\ a[3] < b[3]

\* nearbyTreeBlocks[0]: the blocks are pushed in the order of the scan.
firstTreeBlock(trees) ==
    CHOOSE a \in trees : \A b \in trees \ {a} : scannedBefore(a, b)

NoScan == [trees |-> {}, target |-> <<>>]

NoMovement == [polls |-> 0, stuckCounter |-> 0, unstucks |-> 0,
               unstuckNow |-> FALSE, promise |-> "none"]

\* -------------------------------------------------------- Action Executor
\* One suspension point of doAction.  on: what settles the awaited promise
\* ("timer": a setTimeout/setInterval the handler armed itself, "actuator":
\* a promise returned by a bot.* call).  rej: what a rejection does
\* ("throw": propagates to doAction's catch, "skip": caught by the
\* per-block try/catch of MINE_TREE, which abandons that block, "next":
\* caught, execution continues, "never": the promise cannot reject).
\* logs: logger.logAction calls made once the wait has resolved.
Wait(on, rej, logs) == [on |-> on, rej |-> rej, logs |-> logs]

\* The (look, dig) pairs of the MINE_TREE block loop for n blocks.
RECURSIVE TreeBlockWaits(_)
TreeBlockWaits(n) ==
    IF n = 0 THEN <<>>
    ELSE <<Wait("actuator", "skip", 0), Wait("timer", "never", 0)>>
         \o TreeBlockWaits(n - 1)

\* What the MINE_AT case can find around the bot: block (bot.blockAt returns
\* a block that is not air), canDig (bot.canDigBlock) and distance
\* (bot.entity.position.distanceTo(targetPos), in whole blocks).
MineAtFindings ==
    [block : BOOLEAN, canDig : BOOLEAN, distance : 0..MaxDistance]

NoFinding == [block |-> FALSE, canDig |-> FALSE, distance |-> 0, error |-> "none"]

\* The tests the MINE_AT case makes on numeric x, y, z before its first
\* await: the message of the Error it throws, or "none".
mineAtCheck(found) ==
    IF ~found.block THEN "No block to mine"
    ELSE IF ~found.canDig THEN "Cannot dig - block is not diggable or out of reach"
    ELSE IF found.distance > maxReach THEN "Too far from block to mine"
    ELSE "none"

\* The MINE_AT case on numeric x, y, z: throw, or look at the block and dig.
mineAtPlan(found) ==
    IF mineAtCheck(found) # "none"
    THEN [sync |-> "throw", waits |-> <<>>, logs |-> 0]
    ELSE [sync |-> "wait",
          waits |-> <<Wait("actuator", "throw", 0), Wait("timer", "throw", 0)>>,
          logs |-> 0]

\* What the switch of doAction can do for an action, the environment
\* (world blocks, inventory, position) deciding among the alternatives:
\* sync = "throw" (an Error before any await), "done" (break before any
\* await) or "wait" (suspends; waits lists the awaits in order).
\* logs: logger.logAction calls made by the case before its first await.
PlanChoices(a) ==
    LET throw == [sync |-> "throw", waits |-> <<>>, logs |-> 0]
        done(n) == [sync |-> "done", waits |-> <<>>, logs |-> n]
        wait(w) == [sync |-> "wait", waits |-> w, logs |-> 0]
    IN
    CASE a.action = "MOVE" ->
            {wait(<<Wait("timer", "never", 0)>>)}
      [] a.action = "LOOK_AT" ->
            IF a.args # "ok" THEN {throw}
            ELSE {wait(<<Wait("actuator", "throw", 0)>>)}
      [] a.action = "GOTO" ->
            IF a.args # "ok" THEN {throw}
            ELSE {done(0),
                  \* 50 ms pause, then the position poll
                  wait(<<Wait("timer", "never", 0), Wait("timer", "throw", 0)>>),
                  \* 50 ms pause, swim to land, then the position poll
                  wait(<<Wait("timer", "never", 1), Wait("timer", "throw", 0),
                         Wait("timer", "throw", 0)>>)}
      [] a.action = "MINE_AT" ->
            IF a.args # "ok" THEN {throw}
            ELSE {mineAtPlan(found) : found \in MineAtFindings}
      [] a.action = "MINE_TREE" ->
            IF a.args # "ok" THEN {throw}
            ELSE {throw}
                 \cup {IF n = 0 THEN done(0) ELSE wait(TreeBlockWaits(n)) :
                          n \in 0..MaxTreeBlocks}
                 \cup {wait(<<Wait("actuator", "next", 0)>> \o TreeBlockWaits(n)) :
                          n \in 0..MaxTreeBlocks}
      [] a.action = "PLACE_AT" ->
            IF a.args # "ok" THEN {throw}
            ELSE {throw,
                  wait(<<Wait("actuator", "throw", 0), Wait("actuator", "throw", 0)>>)}
      [] a.action = "ATTACK_NEAREST" ->
            {done(1),
             wait(<<Wait("actuator", "throw", 0), Wait("actuator", "throw", 1)>>)}
      [] a.action = "SELECT_HOTBAR" ->
            IF a.args # "ok" THEN {throw} ELSE {done(0)}
      [] a.action = "EAT" ->
            {done(1),
             wait(<<Wait("actuator", "throw", 0), Wait("actuator", "throw", 0)>>)}
      [] a.action = "CRAFT" ->
            IF a.args # "ok" THEN {throw}
            ELSE {throw, wait(<<Wait("actuator", "throw", 0)>>)}
      [] OTHER -> {throw}

\* logger.logAction: actionCount++ (only ever compared with maxActions).
logAction(count, n) == Min(count + n, MaxActions)

\* An addToActionHistory that drops the new entry when the history is full.
addToActionHistoryKeepOldest(history, action, result) ==
    LET historyEntry == [action |-> action, result |-> result,
                         actionNumber |-> Len(history) + 1]
        pushed == Append(history, historyEntry)
    IN  IF Len(pushed) > MaxHistory THEN history ELSE pushed

\* Of a history entry the model keeps the action, the result and the
\* actionNumber; error is non-null iff result is 'failed'; timestamp and
\* duration are not read by the engine.
addToActionHistory(history, action, result) ==
    LET historyEntry == [action |-> action, result |-> result,
                         actionNumber |-> Len(history) + 1]
        pushed == Append(history, historyEntry)
    IN  IF Len(pushed) > MaxHistory THEN Tail(pushed) ELSE pushed

isActionInProgress == currentAction # NoAction

IdleTask == [pc |-> "idle", by |-> "none", action |-> NoAction, waits |-> <<>>]

\* How doAction ends: its try block falls through and it returns, or its
\* catch block ends with `throw error`.
doActionOutcome(result) == IF result = "completed" THEN "returned" ELSE "threw"

\* executeLLMDecision without its outer try/catch.
executeLLMDecisionUncaught(outcome) == IF outcome = "returned" THEN "true" ELSE "threw"

\* executeLLMDecision after `await doAction(action)`: return true, or the
\* catch of its outer try returns false.
executeLLMDecisionResult(outcome) == IF outcome = "returned" THEN "true" ELSE "false"

\* POST /act after `await doAction(action)`: 200, or its catch answers 500.
actResponse(outcome) == IF outcome = "returned" THEN "200" ELSE "500"

\* A doAction whose catch block does not record the failed Action.
doActionReturnUnrecorded(t, by, action, result, logs) ==
    /\ output' = Output(by, "doAction",
                        IF by = "cycle"
                        THEN executeLLMDecisionResult(doActionOutcome(result))
                        ELSE actResponse(doActionOutcome(result)),
                        doActionOutcome(result))
    /\ actionHistory' = IF result = "failed" THEN actionHistory
                        ELSE addToActionHistory(actionHistory, action, result)
    /\ actionCount' = logAction(actionCount, logs)
    /\ currentAction' = NoAction
    /\ actionStartTime' = NoTime
    /\ tasks' = [tasks EXCEPT ![t] = IdleTask]

\* The tail of doAction (log, history entry, clear the execution state) and
\* the continuation of its caller by ("cycle": executeLLMDecision, "act":
\* POST /act).  logs counts the logger.logAction calls made in this
\* run-to-completion block, the terminal one included.
doActionReturn(t, by, action, result, logs) ==
    /\ output' = Output(by, "doAction",
                        IF by = "cycle"
                        THEN executeLLMDecisionResult(doActionOutcome(result))
                        ELSE actResponse(doActionOutcome(result)),
                        doActionOutcome(result))
    /\ actionHistory' = addToActionHistory(actionHistory, action, result)
    /\ actionCount' = logAction(actionCount, logs)
    /\ currentAction' = NoAction
    /\ actionStartTime' = NoTime
    /\ tasks' = [tasks EXCEPT ![t] = IdleTask]

\* doAction from its entry to its first await (or to its return when the
\* case has no await).
doActionPlanned(t, by, action, plan) ==
    IF plan.sync = "wait"
    THEN /\ currentAction' = action
         /\ actionStartTime' = now
         /\ actionCount' = logAction(actionCount, 1)
         /\ tasks' = [tasks EXCEPT ![t] =
                [pc |-> "exec", by |-> by, action |-> action,
                 waits |-> plan.waits]]
         /\ output' = NoOutput
         /\ UNCHANGED actionHistory
    ELSE doActionReturn(t, by, action,
                        IF plan.sync = "done" THEN "completed" ELSE "failed",
                        2 + plan.logs)

doAction(t, by, a) ==
    LET horizon == clamp(IF "horizon_ms" \in DOMAIN a THEN a.horizon_ms ELSE 400,
                         100, 5000)
        action == [action |-> a.action, args |-> Field(a, "args"),
                   horizon_ms |-> horizon]
    IN  \E plan \in PlanChoices(action) : doActionPlanned(t, by, action, plan)

\* A wait of task t settles; settled = "resolve" or "reject".
Settle(t, settled) ==
    LET task == tasks[t]
        w == Head(task.waits)
        rest == Tail(task.waits)
        \* a block whose lookAt rejected is abandoned: its dig is not started
        left == IF settled = "reject" /\ w.rej = "skip" THEN Tail(rest) ELSE rest
    IN  IF settled = "reject" /\ w.rej = "throw"
        THEN doActionReturn(t, task.by, task.action, "failed", 1)
        ELSE IF left = <<>>
        THEN doActionReturn(t, task.by, task.action, "completed", 1 + w.logs)
        ELSE /\ tasks' = [tasks EXCEPT ![t].waits = left]
             /\ output' = NoOutput
             /\ actionCount' = logAction(actionCount, w.logs)
             /\ UNCHANGED <<currentAction, actionStartTime, actionHistory>>

\* A timer armed by doAction fires and settles the awaited promise.
ExecTimer(t) ==
    /\ tasks[t].pc = "exec"
    /\ Head(tasks[t].waits).on = "timer"
    /\ \E settled \in {"resolve", "reject"} :
          /\ settled = "reject" => Head(tasks[t].waits).rej # "never"
          /\ Settle(t, settled)
    /\ UNCHANGED <<botIntelligence, autoModeTimer, now, recorded>>
    /\ UNCHANGED <<schedVars, caseVars>>

\* The Actuator signals completion or failure of the awaited bot.* call.
ExecActuator(t) ==
    /\ tasks[t].pc = "exec"
    /\ Head(tasks[t].waits).on = "actuator"
    /\ \E settled \in {"resolve", "reject"} : Settle(t, settled)
    /\ UNCHANGED <<botIntelligence, autoModeTimer, now, recorded>>
    /\ UNCHANGED <<schedVars, caseVars>>

\* --------------------------------------------------------- Decision Cycle
\* CONFIG.actionSync.enabled switched off.
actionSyncDisabled == FALSE

actionSyncEnabled == TRUE

\* Objects the policy source's text can parse to, and bodies POSTed to /act.
PolicyObjects ==
    {[action |-> "MOVE"],
     [action |-> "MINE_AT", args |-> "ok", horizon_ms |-> 5000],
     [action |-> "DANCE", args |-> "ok"],
     [action |-> "MOVE", horizon_ms |-> 9000],
     [type |-> "GOTO", parameters |-> "ok"]}

\* fetch rejecting, a non-2xx status, a body that is not JSON, a message
\* without a {...} substring, a {...} substring that is not JSON.
PolicyFailures ==
    {[failure |-> f] : f \in {"fetch_error", "http_error", "non_json", "no_match", "bad_json"}}

Record(rec, action) ==
    [count |-> Min(rec.count + 1, stuckDetectionThreshold),
     keys |-> SliceLast(Append(rec.keys, actionKey(action)), stuckDetectionThreshold)]

\* updateActionMemory(action); botIntelligence.lastLLMDecision = action
Track(bi, action) ==
    /\ botIntelligence' = [updateActionMemory(bi, action)
                              EXCEPT !.lastLLMDecision = action]
    /\ recorded' = Record(recorded, action)

\* Invocation slots are interchangeable: a new invocation takes the lowest
\* idle one.
FreeSlot(t) == tasks[t].pc = "idle" /\ \A u \in 1..(t - 1) : tasks[u].pc # "idle"

\* executeLLMDecision from its entry to the fetch (or to its return), run by
\* the auto-mode interval (src = "timer") or by POST /decide.
CycleStart(t, src) ==
    /\ FreeSlot(t)
    /\ src = "timer" => autoModeTimer
    /\ UNCHANGED <<now, schedVars, caseVars>>
    /\ \E entity \in BOOLEAN, treesNearby \in BOOLEAN,
          firstRecent \in 1..(Len(botIntelligence.actionMemory) + 1) :
      \* the surroundings are enumerated only where the cycle reads them
      /\ (treesNearby \/ firstRecent # 1) =>
             (/\ entity
              /\ actionCount < MaxActions
              /\ ~isActionInProgress
              /\ detectStuckBehavior(botIntelligence))
      /\ IF src = "timer" /\ ~entity
         THEN \* the interval callback does not call executeLLMDecision
              /\ tasks' = tasks
              /\ output' = NoOutput
              /\ UNCHANGED <<currentAction, actionStartTime, actionHistory,
                             botIntelligence, actionCount, autoModeTimer,
                             recorded>>
         ELSE IF actionCount >= MaxActions
         THEN /\ autoModeTimer' = FALSE
              /\ tasks' = tasks
              /\ output' = Output("cycle", "entry", "false", "none")
              /\ UNCHANGED <<currentAction, actionStartTime, actionHistory,
                             botIntelligence, actionCount, recorded>>
         ELSE IF (actionSyncEnabled /\ isActionInProgress) \/ ~entity
         THEN \* skipped, or updatePositionTracking threw and was caught
              /\ tasks' = tasks
              /\ output' = Output("cycle", "entry", "false", "none")
              /\ UNCHANGED <<currentAction, actionStartTime, actionHistory,
                             botIntelligence, actionCount, autoModeTimer,
                             recorded>>
         ELSE LET detected == detectStuckBehaviorEffect(botIntelligence)
                  intelligentOverride == getIntelligentOverride(detected, treesNearby,
                                                                firstRecent)
              IN  /\ UNCHANGED autoModeTimer
                  /\ IF intelligentOverride.ret # NoAction
                     THEN /\ Track(intelligentOverride.bi, intelligentOverride.ret)
                          /\ doAction(t, "cycle", intelligentOverride.ret)
                     ELSE /\ botIntelligence' = intelligentOverride.bi
                          /\ tasks' = [tasks EXCEPT ![t] =
                                 [pc |-> "llm", by |-> "cycle",
                                  action |-> NoAction, waits |-> <<>>]]
                          /\ output' = NoOutput
                          /\ UNCHANGED <<currentAction, actionStartTime,
                                         actionHistory, actionCount, recorded>>

\* executeLLMDecision from the policy source's answer to the first await of
\* doAction (or to its return).
PolicyResponse(t) ==
    /\ tasks[t].pc = "llm"
    /\ UNCHANGED <<now, autoModeTimer, schedVars, caseVars>>
    /\ \E resp \in PolicyFailures \cup PolicyObjects :
         IF resp \in PolicyFailures \/ ~validateAction(resp)
         THEN /\ tasks' = [tasks EXCEPT ![t] = IdleTask]
              /\ output' = Output("cycle", "policy", "false", "none")
              /\ UNCHANGED <<currentAction, actionStartTime, actionHistory,
                             botIntelligence, actionCount, recorded>>
         ELSE /\ Track(botIntelligence, resp)
              /\ doAction(t, "cycle", resp)

\* POST /act
Act(t) ==
    /\ FreeSlot(t)
    /\ actionCount < MaxActions
    /\ UNCHANGED <<now, autoModeTimer, botIntelligence, recorded, schedVars, caseVars>>
    /\ \E body \in PolicyObjects :
         IF ~validateAction(body)
         THEN /\ tasks' = tasks
              /\ output' = Output("act", "entry", "400", "none")
              /\ UNCHANGED <<currentAction, actionStartTime, actionHistory,
                             actionCount>>
         ELSE doAction(t, "act", body)

\* startAutoMode: bot 'spawn' with autoMode.enabled, POST /auto/start
startAutoMode ==
    /\ autoModeTimer' = TRUE
    /\ output' = NoOutput
    /\ UNCHANGED <<currentAction, actionStartTime, actionHistory, botIntelligence,
                   actionCount, tasks, now, recorded, schedVars, caseVars>>

\* stopAutoMode: bot 'end' and 'kicked', POST /auto/stop
stopAutoMode ==
    /\ autoModeTimer' = FALSE
    /\ output' = NoOutput
    /\ UNCHANGED <<currentAction, actionStartTime, actionHistory, botIntelligence,
                   actionCount, tasks, now, recorded, schedVars, caseVars>>

\* ---------------------------------------------------------- Goal Scheduler
\* Time is counted in scheduler tick intervals (CONFIG.goalSystem.tickInterval).
TickInterval == 1
maxActiveGoals == 3

GoalNames == {"SurvivalGoal", "MineTreeGoal", "BuildShelterGoal", "ExploreGoal"}

Range(seq) == {seq[i] : i \in 1..Len(seq)}

\* The priority each goal's constructor passes to Goal.
priority(g) ==
    CASE g = "SurvivalGoal" -> 10
      [] g = "MineTreeGoal" -> 3
      [] g = "BuildShelterGoal" -> 2
      [] OTHER -> 1

\* What updateSensors stores in sensorData.  hostile: 0 when nearbyMobs holds
\* no hostile mob, else the distance of the first one; trees, ores: lengths
\* of nearbyBlocks.trees and nearbyBlocks.ores; wood, stone, total: the
\* inventory summary.
Snapshot(health, hunger, hostile, trees, ores, wood, stone, total) ==
    [health |-> health, hunger |-> hunger, hostile |-> hostile, trees |-> trees,
     ores |-> ores, wood |-> wood, stone |-> stone, total |-> total]

\* sensorData as the GoalSelector constructor leaves it.
InitialSensorData == Snapshot(20, 20, 0, 0, 0, 0, 0, 0)

\* The surroundings updateSensors can find.
Snapshots ==
    {Snapshot(20, 20, 0, 0, 0, 0, 0, 0),      \* nothing around, empty inventory
     Snapshot(20, 20, 0, 1, 0, 0, 0, 0),      \* a tree, no wood
     Snapshot(20, 20, 0, 0, 0, 10, 5, 15),    \* building material, nothing around
     Snapshot(20, 20, 2, 0, 0, 10, 5, 15),    \* a hostile mob within reach
     Snapshot(20, 20, 5, 1, 0, 0, 0, 0),      \* a hostile mob close, a tree
     Snapshot(20, 5, 0, 1, 1, 10, 5, 25),     \* hungry, full inventory
     Snapshot(20, 20, 0, 0, 1, 0, 0, 0)}      \* ore around

canUse(g, s, isNight) ==
    CASE g = "SurvivalGoal" -> s.health < 10 \/ s.hunger < 6 \/ s.hostile # 0
      \* failureCount stays 0: mineTree catches every failure of its awaits
      [] g = "MineTreeGoal" -> s.trees > 0 /\ s.wood < 10
      [] g = "BuildShelterGoal" ->
            (isNight \/ s.hostile # 0) /\ s.wood >= 10 /\ s.stone >= 5
      [] OTHER -> s.trees = 0 /\ s.ores = 0 /\ s.total < 20

\* gs: the goals' fields (gs[g].priority is this.priority).
getDynamicPriority(g, gs, s, isNight) ==
    CASE g = "MineTreeGoal" ->
            IF s.wood = 0 /\ s.trees > 0 THEN 5
            ELSE IF s.wood < 5 /\ s.trees > 0 THEN 4
            ELSE gs[g].priority
      [] g = "BuildShelterGoal" ->
            IF isNight /\ s.hostile # 0 THEN 8
            ELSE IF isNight \/ s.hostile # 0 THEN 5
            ELSE gs[g].priority
      [] OTHER -> gs[g].priority

\* A sort by ascending dynamic priority.
SortByPriorityAscending(seq, gs, s, isNight) ==
    LET p(i) == getDynamicPriority(seq[i], gs, s, isNight)
        rank(i) == 1 + Cardinality({j \in 1..Len(seq) :
                            p(j) < p(i) \/ (p(j) = p(i) /\ j < i)})
    IN  [k \in 1..Len(seq) |-> seq[CHOOSE i \in 1..Len(seq) : rank(i) = k]]

\* Array.prototype.sort((a, b) => b.getDynamicPriority() - a.getDynamicPriority()),
\* which is stable.
SortByPriority(seq, gs, s, isNight) ==
    LET p(i) == getDynamicPriority(seq[i], gs, s, isNight)
        rank(i) == 1 + Cardinality({j \in 1..Len(seq) :
                            p(j) > p(i) \/ (p(j) = p(i) /\ j < i)})
    IN  [k \in 1..Len(seq) |-> seq[CHOOSE i \in 1..Len(seq) : rank(i) = k]]

addGoal(goals, g, gs, s, isNight) ==
    SortByPriority(Append(goals, g), gs, s, isNight)

\* A continuation check that always fails.
canContinueNever(g, gs, loc, s, treeStands) == FALSE

\* treeStands: the block at targetTree.position is still a tree block.
canContinue(g, gs, loc, s, treeStands) ==
    CASE g = "SurvivalGoal" -> canUse(g, s, FALSE)
      [] g = "MineTreeGoal" -> gs[g].isActive /\ loc.targetTree /\ treeStands
      [] OTHER -> gs[g].isActive

\* A hasTimedOut that never reports a timeout.
hasTimedOutNever(gr, t) == FALSE

hasTimedOut(gr, t) ==
    IF gr.startTime = NoTime THEN FALSE
    ELSE t - gr.startTime > GoalPersistence

start(gr, t) == [gr EXCEPT !.isActive = TRUE, !.startTime = t]

\* A stop that leaves startTime as it is.
stopKeepingStartTime(gr) == [gr EXCEPT !.isActive = FALSE]

stop(gr) == [gr EXCEPT !.isActive = FALSE, !.startTime = NoTime]

\* The activation loop without its capacity test.
activatedUnbounded(kept, availableGoals) == availableGoals

\* The goals the activation loop of GoalSelector.tick shifts off
\* availableGoals: as many as the active set has room for.
activated(kept, availableGoals) ==
    SubSeq(availableGoals, 1,
           Min(Len(availableGoals), Max(0, maxActiveGoals - Len(kept))))

nextPhase(buildingPhase) ==
    CASE buildingPhase = "planning" -> "foundation"
      [] buildingPhase = "foundation" -> "walls"
      [] buildingPhase = "walls" -> "roof"
      [] OTHER -> "complete"

\* bot 'spawn': initializeGoalSystem registers the four goals and arms the
\* tick interval.
initializeGoalSystem ==
    /\ goalSystem.goals = <<>>
    /\ uncaught = None
    /\ \E isNight \in BOOLEAN :
         LET s == InitialSensorData
             g1 == addGoal(<<>>, "SurvivalGoal", goal, s, isNight)
             g2 == addGoal(g1, "MineTreeGoal", goal, s, isNight)
             g3 == addGoal(g2, "BuildShelterGoal", goal, s, isNight)
             g4 == addGoal(g3, "ExploreGoal", goal, s, isNight)
         IN  goalSystem' = [goalSystem EXCEPT !.goals = g4]
    /\ output' = NoOutput
    /\ UNCHANGED <<goal, goalLocal, pass, uncaught, llmValidator, now, execVars>>

\* One call of the tick interval's callback that passes the interval test of
\* GoalSelector.tick (a call that does not return at once): the pass and the
\* synchronous part of every goal.tick it calls.  The surroundings decide
\* s (the sensor snapshot), isNight, treeStands, near (the target tree is
\* within 4 blocks), reached (the exploration target is within 3 blocks)
\* and attackThrows (bot.attack throws).
GoalTick ==
    /\ goalSystem.goals # <<>>
    /\ uncaught = None
    /\ output' = NoOutput
    /\ UNCHANGED <<now, execVars, llmValidator>>
    /\ now - goalSystem.lastTickTime >= TickInterval
    /\ \E s \in Snapshots, isNight \in BOOLEAN, treeStands \in BOOLEAN,
          near \in BOOLEAN, reached \in BOOLEAN, attackThrows \in BOOLEAN :
         \* an input is enumerated only where the pass reads it
         /\ isNight => (s.wood >= 10 /\ s.stone >= 5)
         /\ ~treeStands => "MineTreeGoal" \in Range(goalSystem.activeGoals)
         /\ near => /\ goalLocal.mining < MaxMining
                     /\ \/ "MineTreeGoal" \in Range(goalSystem.activeGoals)
                        \/ canUse("MineTreeGoal", s, isNight)
         \* a target generated by this pass is 20 to 50 blocks away
         /\ reached => /\ "ExploreGoal" \in Range(goalSystem.activeGoals)
                        /\ goal["ExploreGoal"].isActive
                        /\ ~hasTimedOut(goal["ExploreGoal"], now)
         /\ attackThrows => (s.hostile > 0 /\ s.hostile < 3)
         /\ \E stopping \in {{g \in Range(goalSystem.activeGoals) :
                                  \/ hasTimedOut(goal[g], now)
                                  \/ ~canContinue(g, goal, goalLocal, s, treeStands)}} :
            \E kept \in {SelectSeq(goalSystem.activeGoals,
                                   LAMBDA g : g \notin stopping)} :
            \E eligible \in {SelectSeq(goalSystem.goals,
                                   LAMBDA g : g \notin Range(kept)
                                              /\ canUse(g, s, isNight))} :
            \E availableGoals \in {SortByPriority(eligible, goal, s, isNight)} :
            \E starting \in {activated(kept, availableGoals)} :
            \E activeGoals \in {kept \o starting} :
            \E afterStart \in {[g \in GoalNames |->
                    LET stopped == IF g \in stopping THEN stop(goal[g]) ELSE goal[g]
                    IN  IF g \in Range(starting) THEN start(stopped, now)
                        ELSE stopped]} :
            \* SurvivalGoal.handleCombat attacks a mob closer than 3; forEach
            \* stops at the goal whose tick throws
            \E thrower \in {IF attackThrows /\ s.hostile > 0 /\ s.hostile < 3
                            THEN {i \in 1..Len(activeGoals) :
                                     activeGoals[i] = "SurvivalGoal"}
                            ELSE {}} :
            \E ticked \in {{activeGoals[i] : i \in {j \in 1..Len(activeGoals) :
                                                  \A k \in thrower : j <= k}}} :
            LET expired == {g \in Range(goalSystem.activeGoals) :
                               hasTimedOut(goal[g], now)}
                targetTree == "MineTreeGoal" \in Range(starting) \/ goalLocal.targetTree
                pathStarted == "MineTreeGoal" \notin Range(starting)
                               /\ goalLocal.pathStarted
                targetPosition == "ExploreGoal" \in Range(starting)
                                  \/ goalLocal.targetPosition
                selfStops(g) ==
                    \/ g = "BuildShelterGoal" /\ goalLocal.buildingPhase = "roof"
                    \/ g = "ExploreGoal" /\ targetPosition /\ reached
                mines == "MineTreeGoal" \in ticked /\ targetTree /\ near
            IN  /\ goalSystem' = [goalSystem EXCEPT !.lastTickTime = now,
                                                    !.sensorData = s,
                                                    !.activeGoals = activeGoals]
                /\ goal' = [g \in GoalNames |->
                              IF g \in ticked /\ selfStops(g)
                              THEN stop(afterStart[g])
                              ELSE afterStart[g]]
                /\ goalLocal' =
                     [targetTree |-> targetTree,
                      pathStarted |-> \/ pathStarted
                                      \/ "MineTreeGoal" \in ticked /\ targetTree /\ ~near,
                      mining |-> goalLocal.mining + (IF mines THEN 1 ELSE 0),
                      targetPosition |-> targetPosition,
                      isMoving |-> \/ goalLocal.isMoving
                                   \/ "ExploreGoal" \in ticked /\ targetPosition,
                      buildingPhase |-> IF "BuildShelterGoal" \in ticked
                                        THEN nextPhase(goalLocal.buildingPhase)
                                        ELSE goalLocal.buildingPhase]
                /\ pass' = [expired |-> expired, started |-> Range(starting),
                            treeStands |-> treeStands,
                            eligible |-> Range(eligible),
                            priority |-> [g \in GoalNames |->
                                            getDynamicPriority(g, goal, s, isNight)],
                            order |-> starting,
                            ticked |-> ticked,
                            failed |-> IF thrower = {} THEN None
                                       ELSE "SurvivalGoal"]
                /\ uncaught' = IF thrower = {} THEN None ELSE "SurvivalGoal"

\* A mineTree call awaited by MineTreeGoal.tick returns; tick stops the goal.
MineTreeDone ==
    /\ goalLocal.mining > 0
    /\ uncaught = None
    /\ goalLocal' = [goalLocal EXCEPT !.mining = @ - 1]
    /\ goal' = [goal EXCEPT !["MineTreeGoal"] = stop(@)]
    /\ output' = NoOutput
    /\ UNCHANGED <<goalSystem, pass, uncaught, llmValidator, now, execVars>>

\* The goal_recommendations of a response of the strategy model: none,
\* or one recommendation.  The prompt asks for adjustments from -2 to +3;
\* the code accepts any number and clamps the sum to 1..10.
Recommendations ==
    {<<>>} \cup {<<[goal_name |-> g, priority_adjustment |-> 4]>> :
                    g \in GoalNames}

\* validateAndEnhanceGoals up to `await this.consultLLM(gameState)`, called
\* by the tick interval's callback.  lastValidationTime starts at 0 and
\* Date.now() is far beyond the interval then.
validateAndEnhanceGoals ==
    /\ goalSystem.goals # <<>>
    /\ uncaught = None
    /\ \/ llmValidator.lastValidationTime = 0
       \/ now - llmValidator.lastValidationTime >= ValidationInterval
    /\ llmValidator' = [lastValidationTime |-> now,
                        pending |-> llmValidator.pending + 1]
    /\ output' = NoOutput
    /\ UNCHANGED <<goalSystem, goal, goalLocal, pass, uncaught, now, execVars>>

\* consultLLM settles: it throws (the catch of validateAndEnhanceGoals
\* logs), or applyLLMRecommendations adjusts the priorities and sorts the
\* registry again.
applyLLMRecommendations ==
    /\ llmValidator.pending > 0
    /\ uncaught = None
    /\ llmValidator' = [llmValidator EXCEPT !.pending = @ - 1]
    /\ output' = NoOutput
    /\ UNCHANGED <<goalLocal, pass, uncaught, now, execVars>>
    /\ \/ UNCHANGED <<goal, goalSystem>>
       \/ \E recs \in Recommendations, isNight \in BOOLEAN :
            \E adjusted \in {[g \in GoalNames |->
                    IF \E i \in 1..Len(recs) : recs[i].goal_name = g
                    THEN [goal[g] EXCEPT !.priority =
                             Max(1, Min(10, @ + recs[1].priority_adjustment))]
                    ELSE goal[g]]} :
               /\ goal' = adjusted
               /\ goalSystem' = [goalSystem EXCEPT !.goals =
                      SortByPriority(@, adjusted, goalSystem.sensorData, isNight)]

\* Wall-clock time passes.
AdvanceTime ==
    /\ now < MaxTime
    /\ now' = now + 1
    /\ output' = NoOutput
    /\ UNCHANGED <<execVars, schedVars>>

vars == <<currentAction, actionStartTime, actionHistory, botIntelligence,
          actionCount, autoModeTimer, tasks, now, recorded,
          goalSystem, goal, goalLocal, pass, uncaught, llmValidator,
          mineAtFound, outcomes, scanned, movement, output>>

Init ==
    /\ currentAction = NoAction
    /\ actionStartTime = NoTime
    /\ actionHistory = <<>>
    /\ botIntelligence = [actionMemory |-> <<>>,
                          consecutiveActions |-> <<>>,
                          lastLLMDecision |-> NoAction,
                          isStuck |-> FALSE,
                          shouldOverride |-> FALSE,
                          isExploring |-> FALSE]
    /\ actionCount = 0
    /\ autoModeTimer = FALSE
    /\ tasks = [t \in Tasks |-> IdleTask]
    /\ now = 1
    /\ recorded = [count |-> 0, keys |-> <<>>]
    /\ goalSystem = [goals |-> <<>>, activeGoals |-> <<>>, lastTickTime |-> 0,
                     sensorData |-> InitialSensorData]
    /\ goal = [g \in GoalNames |->
                  [priority |-> priority(g), isActive |-> FALSE,
                   startTime |-> NoTime]]
    /\ goalLocal = [targetTree |-> FALSE, pathStarted |-> FALSE, mining |-> 0,
                    targetPosition |-> FALSE, isMoving |-> FALSE,
                    buildingPhase |-> "planning"]
    /\ pass = [expired |-> {}, started |-> {}, treeStands |-> TRUE,
               eligible |-> {},
               priority |-> [g \in GoalNames |-> priority(g)], order |-> <<>>,
               ticked |-> {}, failed |-> None]
    /\ uncaught = None
    /\ llmValidator = [lastValidationTime |-> 0, pending |-> 0]
    /\ mineAtFound = NoFinding
    /\ outcomes = <<>>
    /\ scanned = NoScan
    /\ movement = NoMovement
    /\ output = NoOutput

Next ==
    \/ \E t \in Tasks : CycleStart(t, "timer")
    \/ \E t \in Tasks : CycleStart(t, "decide")
    \/ \E t \in Tasks : PolicyResponse(t)
    \/ \E t \in Tasks : Act(t)
    \/ \E t \in Tasks : ExecTimer(t)
    \/ \E t \in Tasks : ExecActuator(t)
    \/ startAutoMode
    \/ stopAutoMode

Spec == Init /\ [][Next]_vars

\* The timers doAction arms itself always fire; nothing obliges the Actuator
\* or the policy source to answer.
FairSpec == Spec /\ \A t \in Tasks : WF_vars(ExecTimer(t))

\* Objects for updateActionMemory: Actions, and objects that have the type
\* and parameters properties the key is built from.
MemoryObjects ==
    {[action |-> "MOVE"],
     [action |-> "MINE_AT", args |-> "ok"],
     [action |-> "GOTO", args |-> "ok"],
     [type |-> "GOTO"],
     [type |-> "GOTO", parameters |-> "ok"]}

\* updateActionMemory applied to any of these objects.
RecordObject ==
    /\ \A k \in DOMAIN botIntelligence.consecutiveActions :
          botIntelligence.consecutiveActions[k] < MaxActions
    /\ \E obj \in MemoryObjects : Track(botIntelligence, obj)
    /\ output' = NoOutput
    /\ UNCHANGED <<currentAction, actionStartTime, actionHistory, actionCount,
                   autoModeTimer, tasks, now, schedVars, caseVars>>

\* The override check of executeLLMDecision: detectStuckBehavior, then
\* getIntelligentOverride, whose Action is recorded.
OverrideCheck ==
    /\ \E treesNearby \in BOOLEAN,
          firstRecent \in 1..(Len(botIntelligence.actionMemory) + 1) :
         LET intelligentOverride ==
                 getIntelligentOverride(detectStuckBehaviorEffect(botIntelligence),
                                        treesNearby, firstRecent)
         IN  IF intelligentOverride.ret # NoAction
             THEN Track(intelligentOverride.bi, intelligentOverride.ret)
             ELSE /\ botIntelligence' = intelligentOverride.bi
                  /\ UNCHANGED recorded
    /\ output' = NoOutput
    /\ UNCHANGED <<currentAction, actionStartTime, actionHistory, actionCount,
                   autoModeTimer, tasks, now, schedVars, caseVars>>

\* Behavioral Memory on its own, as functions of what has been recorded.
NextMemory ==
    \/ RecordObject
    \/ OverrideCheck

SpecMemory == Init /\ [][NextMemory]_vars

\* The Goal Scheduler on its own: it shares no variable with the Decision
\* Cycle and the Action Executor.
NextSched ==
    \/ initializeGoalSystem
    \/ GoalTick
    \/ MineTreeDone
    \/ AdvanceTime

SpecSched == Init /\ [][NextSched]_vars

\* The Goal Scheduler with the LLMGoalValidator adjusting priorities.
NextValidated ==
    \/ initializeGoalSystem
    \/ GoalTick
    \/ MineTreeDone
    \/ validateAndEnhanceGoals
    \/ applyLLMRecommendations
    \/ AdvanceTime

SpecValidated == Init /\ [][NextValidated]_vars

\* The Goal Scheduler next to Actions POSTed to /act: both command the
\* Actuator.
NextShared ==
    \/ initializeGoalSystem
    \/ GoalTick
    \/ MineTreeDone
    \/ \E t \in Tasks : Act(t)
    \/ \E t \in Tasks : ExecTimer(t)
    \/ \E t \in Tasks : ExecActuator(t)

SpecShared == Init /\ [][NextShared]_vars

\* The Action Executor on its own, called by POST /act.
NextExec ==
    \/ \E t \in Tasks : Act(t)
    \/ \E t \in Tasks : ExecTimer(t)
    \/ \E t \in Tasks : ExecActuator(t)

SpecExec == Init /\ [][NextExec]_vars

\* GoalSelector.addGoal called with a goal of any of the four classes.
register ==
    /\ Len(goalSystem.goals) < MaxGoals
    /\ \E g \in GoalNames, isNight \in BOOLEAN :
         goalSystem' = [goalSystem EXCEPT
             !.goals = addGoal(@, g, goal, goalSystem.sensorData, isNight)]
    /\ output' = NoOutput
    /\ UNCHANGED <<goal, goalLocal, pass, uncaught, llmValidator, now, execVars>>

\* The goal registry on its own, as a function of the calls of addGoal.
NextRegistry == register

SpecRegistry == Init /\ [][NextRegistry]_vars

\* The Action Executor with the clock running.  Here one unit of the clock
\* is HorizonUnit ms, the upper end of the clamp of horizon_ms, so every
\* horizon is over once the clock has advanced by more than one unit.
HorizonUnit == 5000

horizonUnits(action) == (action.horizon_ms + HorizonUnit - 1) \div HorizonUnit

NextTimed ==
    \/ \E t \in Tasks : Act(t)
    \/ \E t \in Tasks : ExecTimer(t)
    \/ \E t \in Tasks : ExecActuator(t)
    \/ AdvanceTime

SpecTimed == Init /\ [][NextTimed]_vars

\* POST /act with a MINE_AT Action whose x, y, z are numbers; what the case
\* finds around the bot is kept in mineAtFound.
MineAt(t) ==
    /\ FreeSlot(t)
    /\ actionCount < MaxActions
    /\ UNCHANGED <<now, autoModeTimer, botIntelligence, recorded, schedVars,
                   outcomes, scanned, movement>>
    /\ \E found \in MineAtFindings :
         LET body == [action |-> "MINE_AT", args |-> "ok", horizon_ms |-> 5000]
         IN  /\ validateAction(body)
             /\ mineAtFound' = [block |-> found.block, canDig |-> found.canDig,
                                distance |-> found.distance,
                                error |-> mineAtCheck(found)]
             /\ doActionPlanned(t, "act", body, mineAtPlan(found))

\* The Action Executor given MINE_AT Actions only.
NextReach ==
    \/ \E t \in Tasks : MineAt(t)
    \/ \E t \in Tasks : ExecTimer(t)
    \/ \E t \in Tasks : ExecActuator(t)

SpecReach == Init /\ [][NextReach]_vars

\* Actions the policy source answers with in AttemptStart.
AttemptAnswers ==
    {[action |-> "MOVE"],
     [action |-> "MINE_AT", args |-> "ok"]}

\* A decision cycle with no Action in flight, from its entry to the first
\* await of doAction: the override of getIntelligentOverride, or else the
\* policy source's Action, is recorded and passed to doAction.
AttemptStart ==
    /\ \A k \in DOMAIN botIntelligence.consecutiveActions :
          botIntelligence.consecutiveActions[k] < MaxActions
    /\ \A i \in 1..Len(outcomes) : outcomes[i] # "pending"
    /\ \E treesNearby \in BOOLEAN,
          firstRecent \in 1..(Len(botIntelligence.actionMemory) + 1) :
         LET intelligentOverride ==
                 getIntelligentOverride(detectStuckBehaviorEffect(botIntelligence),
                                        treesNearby, firstRecent)
         IN  \E action \in (IF intelligentOverride.ret # NoAction
                            THEN {intelligentOverride.ret}
                            ELSE AttemptAnswers) :
                 /\ validateAction(action)
                 /\ Track(intelligentOverride.bi, action)
    /\ outcomes' = SliceLast(Append(outcomes, "pending"), MemoryDepth)
    /\ output' = NoOutput
    /\ UNCHANGED <<currentAction, actionStartTime, actionHistory, actionCount,
                   autoModeTimer, tasks, now, schedVars, mineAtFound, scanned,
                   movement>>

\* The doAction call of the latest recorded Action returns ("completed") or
\* throws ("failed").
AttemptEnd ==
    /\ outcomes # <<>>
    /\ outcomes[Len(outcomes)] = "pending"
    /\ \E result \in {"completed", "failed"} :
         outcomes' = [outcomes EXCEPT ![Len(outcomes)] = result]
    /\ output' = NoOutput
    /\ UNCHANGED <<currentAction, actionStartTime, actionHistory, actionCount,
                   autoModeTimer, tasks, now, schedVars, mineAtFound, scanned,
                   movement, botIntelligence, recorded>>

\* Decision cycles one after the other, with the outcome of each Action.
NextAttempts ==
    \/ AttemptStart
    \/ AttemptEnd

SpecAttempts == Init /\ [][NextAttempts]_vars

\* The sets of tree blocks the world can hold inside the scanned box.
RECURSIVE TreeSets(_)
TreeSets(n) ==
    IF n = 0 THEN {{}}
    ELSE LET smaller == TreeSets(n - 1)
         IN  smaller \cup {trees \cup {a} : trees \in smaller, a \in ScanOffsets}

TreesNearby == TreeSets(MaxTreesNearby)

\* A decision cycle with no Action in flight, from its entry to the first
\* await of doAction, with the block scan of getIntelligentOverride spelled
\* out: trees are the tree blocks around the bot.
CycleScan ==
    /\ \A k \in DOMAIN botIntelligence.consecutiveActions :
          botIntelligence.consecutiveActions[k] < MaxActions
    /\ \E trees \in TreesNearby,
          firstRecent \in 1..(Len(botIntelligence.actionMemory) + 1) :
         LET intelligentOverride ==
                 getIntelligentOverride(detectStuckBehaviorEffect(botIntelligence),
                                        trees # {}, firstRecent)
         IN  \* the surroundings are enumerated only where the cycle reads them
             /\ (trees # {} \/ firstRecent # 1) =>
                    detectStuckBehavior(botIntelligence)
             /\ firstRecent # 1 =>
                    recentMiningFailures(botIntelligence, 1) >= 3
             /\ trees # {} =>
                    recentMiningFailures(botIntelligence, firstRecent) < 3
             /\ \E action \in (IF intelligentOverride.ret # NoAction
                                THEN {intelligentOverride.ret}
                                ELSE AttemptAnswers) :
                    Track(intelligentOverride.bi, action)
             /\ scanned' = IF intelligentOverride.ret = OverrideMineTree
                           THEN [trees |-> trees, target |-> firstTreeBlock(trees)]
                           ELSE NoScan
    /\ output' = NoOutput
    /\ UNCHANGED <<currentAction, actionStartTime, actionHistory, actionCount,
                   autoModeTimer, tasks, now, schedVars, mineAtFound, outcomes,
                   movement>>

\* Decision cycles one after the other, with the blocks around the bot.
NextScan == CycleScan

SpecScan == Init /\ [][NextScan]_vars

\* The GOTO case arms its position poll (setInterval, 100 ms).
GotoStart ==
    /\ movement.promise # "polling"
    /\ movement' = [NoMovement EXCEPT !.promise = "polling"]
    /\ output' = NoOutput
    /\ UNCHANGED <<currentAction, actionStartTime, actionHistory, actionCount,
                   autoModeTimer, tasks, now, schedVars, botIntelligence,
                   recorded, mineAtFound, outcomes, scanned>>

\* One callback of the position poll.  The surroundings decide reached
\* (currentDistance <= radius + 0.5), moved (the distance changed by 0.1
\* or more since the last poll) and far (currentDistance > distance * 0.8).
GotoPoll ==
    /\ movement.promise = "polling"
    /\ \E reached \in BOOLEAN, moved \in BOOLEAN, far \in BOOLEAN :
         LET polls == movement.polls + 1
             counted == IF moved THEN 0 ELSE movement.stuckCounter + 1
             unstuck == ~moved /\ counted >= StallPolls
             blocked == unstuck /\ far /\ polls > BlockedAfterPolls
         IN  /\ reached => ~far
             /\ movement' =
                  IF reached
                  THEN [movement EXCEPT !.polls = polls, !.unstuckNow = FALSE,
                                        !.promise = "reached"]
                  ELSE [polls |-> polls,
                        stuckCounter |-> IF unstuck THEN 0 ELSE counted,
                        unstucks |-> movement.unstucks + (IF unstuck THEN 1 ELSE 0),
                        unstuckNow |-> unstuck,
                        promise |-> IF blocked THEN "blocked"
                                    ELSE IF polls > TimeoutPolls THEN "timeout"
                                    ELSE "polling"]
    /\ output' = NoOutput
    /\ UNCHANGED <<currentAction, actionStartTime, actionHistory, actionCount,
                   autoModeTimer, tasks, now, schedVars, botIntelligence,
                   recorded, mineAtFound, outcomes, scanned>>

\* The position poll of the GOTO case on its own.
NextGoto ==
    \/ GotoStart
    \/ GotoPoll

SpecGoto == Init /\ [][NextGoto]_vars

\* ----------------------------------------------------------------- claims
Executing == {t \in Tasks : tasks[t].pc = "exec"}
\* A mineTree call resumes after one of its awaits and issues its next
\* command (approachBlock, lookAt, equip or safeDig); the loop over
\* blocksToMine does not read isActive.
MineTreeStep ==
    /\ goalLocal.mining > 0
    /\ uncaught = None
    /\ output' = Output("mineTree", "command",
                        IF goal["MineTreeGoal"].isActive THEN "active"
                        ELSE "stopped", "none")
    /\ UNCHANGED <<execVars, schedVars, now>>

\* The Goal Scheduler with the steps of its mineTree calls.
NextMine ==
    \/ initializeGoalSystem
    \/ GoalTick
    \/ MineTreeStep
    \/ MineTreeDone
    \/ AdvanceTime

SpecMine == Init /\ [][NextMine]_vars


\* Auto mode on its own: the interval callback of startAutoMode is the only
\* caller of executeLLMDecision.
NextAuto ==
    \/ \E t \in Tasks : CycleStart(t, "timer")
    \/ \E t \in Tasks : PolicyResponse(t)
    \/ \E t \in Tasks : ExecTimer(t)
    \/ \E t \in Tasks : ExecActuator(t)
    \/ startAutoMode
    \/ stopAutoMode

SpecAuto == Init /\ [][NextAuto]_vars



\* C1: at most one Action is being executed by doAction at any time.
C1_SingleFlight == Cardinality(Executing) <= 1

\* C2: currentAction / actionStartTime are empty immediately before every
\* doAction call and immediately after it returns.
C2_EmptyAroundExecute ==
    [][\A t \in Tasks :
         /\ (tasks[t].pc # "exec" /\ tasks'[t].pc = "exec")
                => (currentAction = NoAction /\ actionStartTime = NoTime)
         /\ (tasks[t].pc = "exec" /\ tasks'[t].pc # "exec")
                => (currentAction' = NoAction /\ actionStartTime' = NoTime)]_vars

\* C3: every started doAction eventually returns and the execution state is
\* eventually cleared, whether or not the Actuator ever signals.
C3_ExecuteReturns ==
    /\ \A t \in Tasks : (tasks[t].pc = "exec") ~> (tasks[t].pc # "exec")
    /\ isActionInProgress ~> ~isActionInProgress

\* A goal has commanded the Actuator and its command is still in effect: a
\* mineTree call is digging, or an active goal has set the path goal.
GoalInControl ==
    \/ goalLocal.mining > 0
    \/ goal["MineTreeGoal"].isActive /\ goalLocal.pathStarted
    \/ goal["ExploreGoal"].isActive /\ goalLocal.isMoving

\* C4: a goal's tick commands the Actuator only while no Executor Action is
\* in flight, and the Executor dispatches an Action only while no goal is in
\* control of the Actuator.
C4_SingleOwner ==
    [][/\ (\/ goalLocal'.mining > goalLocal.mining
           \/ goalLocal'.pathStarted /\ ~goalLocal.pathStarted
           \/ goalLocal'.isMoving /\ ~goalLocal.isMoving)
              => currentAction = NoAction
       /\ (currentAction = NoAction /\ currentAction' # NoAction)
              => ~GoalInControl]_vars

\* C5: the active set never holds more than maxActiveGoals goals.
C5_ActiveSetBounded == Len(goalSystem.activeGoals) <= maxActiveGoals

\* The active set is full and the latest snapshot makes MineTreeGoal, which
\* is not in it, eligible.
C5_Witness ==
    /\ Len(goalSystem.activeGoals) = maxActiveGoals
    /\ "MineTreeGoal" \notin Range(goalSystem.activeGoals)
    /\ canUse("MineTreeGoal", goalSystem.sensorData, FALSE)
    /\ goalSystem.lastTickTime = now

\* C6: every goal is in the active set at most once, and its startTime is
\* non-null iff it is active (isActive).
C6_OneActivation ==
    \A g \in GoalNames :
        /\ Cardinality({i \in 1..Len(goalSystem.activeGoals) :
                            goalSystem.activeGoals[i] = g}) <= 1
        /\ (goal[g].startTime # NoTime) <=> goal[g].isActive

\* One goal was stopped and started again by the same pass, and another one
\* that stopped itself is still in the active set.
C6_Witness ==
    /\ \E g \in pass.expired : g \in pass.started /\ goal[g].isActive
    /\ \E h \in Range(goalSystem.activeGoals) : ~goal[h].isActive

C8_TickFailureContained ==
    pass.failed # None =>
        /\ uncaught = None
        /\ ~goal[pass.failed].isActive
        /\ Range(goalSystem.activeGoals) \subseteq pass.ticked

LastNIdentical ==
    /\ recorded.count >= stuckDetectionThreshold
    /\ \A i \in 1..Len(recorded.keys) : recorded.keys[i] = recorded.keys[1]

\* C9: detectStuckBehavior returns true iff at least N signatures have been
\* recorded and the N most recently recorded ones are identical.
C9_StuckIffLastNIdentical == detectStuckBehavior(botIntelligence) <=> LastNIdentical

\* The memory is full, its three most recent keys are identical and
\* detectStuckBehavior reports it.
C9_Witness ==
    /\ recorded.count = stuckDetectionThreshold
    /\ Len(botIntelligence.actionMemory) = MemoryDepth
    /\ detectStuckBehavior(botIntelligence)

\* C10: while the N most recent recorded signatures are not all identical,
\* the override check of a decision cycle (detectStuckBehavior followed by
\* getIntelligentOverride) returns no Action, whatever the surroundings.
C10_NoOverrideUnlessStuck ==
    ~LastNIdentical =>
        \A treesNearby \in BOOLEAN,
           firstRecent \in 1..(Len(botIntelligence.actionMemory) + 1) :
            getIntelligentOverride(detectStuckBehaviorEffect(botIntelligence),
                                   treesNearby, firstRecent).ret = NoAction

\* Three keys or more are recorded, the most recent three are not all the
\* same, and the override check returns nothing.
C10_Witness ==
    /\ recorded.count = stuckDetectionThreshold
    /\ ~LastNIdentical
    /\ getIntelligentOverride(detectStuckBehaviorEffect(botIntelligence),
                              TRUE, 1).ret = NoAction

\* Task t runs the part of executeLLMDecision that detects stuck behaviour
\* and asks for an override in this step: it ends suspended on the policy
\* source, suspended in doAction, or back from a doAction without an await.
CycleDecides(t) ==
    /\ tasks[t].pc = "idle"
    /\ \/ tasks'[t].pc = "llm"
       \/ tasks'[t].pc = "exec" /\ tasks'[t].by = "cycle"
       \/ tasks' = tasks /\ output'.handler = "cycle" /\ output'.doAction # "none"

\* The Action the step's doAction call was passed.
Executed(t) ==
    IF tasks'[t].pc = "exec" THEN tasks'[t].action
    ELSE actionHistory'[Len(actionHistory')].action

\* C11: in every decision cycle in which detectStuckBehavior reports stuck,
\* the policy source is not queried and the Action passed to doAction is the
\* override that getIntelligentOverride returned.
C11_OverridePreempts ==
    [][\A t \in Tasks :
          (CycleDecides(t) /\ detectStuckBehavior(botIntelligence)) =>
              /\ tasks'[t].pc # "llm"
              /\ botIntelligence'.lastLLMDecision \in {OverrideGoto, OverrideMineTree}
              /\ Executed(t).action = botIntelligence'.lastLLMDecision.action
              /\ Executed(t).args = botIntelligence'.lastLLMDecision.args]_vars

\* A cycle that found three identical keys in the memory is suspended in
\* doAction with the MINE_TREE override.
C11_Witness ==
    \E t \in Tasks :
        /\ tasks[t].pc = "exec"
        /\ tasks[t].by = "cycle"
        /\ tasks[t].action.action = "MINE_TREE"
        /\ botIntelligence.lastLLMDecision = OverrideMineTree
        /\ recorded.count = stuckDetectionThreshold

\* C12: once an override has been issued and recorded (it is the latest
\* recorded Action), detectStuckBehavior does not report stuck, so the next
\* decision cycle consults the policy source.
C12_OverrideNotStuck ==
    botIntelligence.lastLLMDecision \in {OverrideGoto, OverrideMineTree}
        => ~detectStuckBehavior(botIntelligence)

C14_CycleNeverThrows ==
    [][output'.handler = "cycle" =>
          /\ output'.result \in {"true", "false"}
          /\ output'.stage = "policy" => output'.result = "false"
          /\ output'.doAction = "threw" => output'.result = "false"
          /\ output'.stage \in {"policy", "doAction"} =>
                /\ autoModeTimer' = autoModeTimer
                /\ \A t \in Tasks : tasks'[t] # tasks[t] => tasks'[t] = IdleTask]_vars

\* The Action a cycle chose has thrown in doAction, the cycle has returned
\* false and the auto-mode timer is still armed.
C14_Witness ==
    /\ output = Output("cycle", "doAction", "false", "threw")
    /\ autoModeTimer
    /\ \E t \in Tasks : tasks[t].pc = "idle"

\* C15: doAction never throws: no doAction call ends with an error handed
\* to its caller.
C15_ExecuteNeverThrows == output.doAction # "threw"

\* The newest history entry.
LastEntry(history) == history[Len(history)]

\* C16: a step in which a doAction call ends appends exactly one entry to
\* the history, for the Action the call was passed and with its terminal
\* result (completed when doAction returns, failed when it throws); no
\* other step changes the history, and every entry has a terminal result.
C16_RecordedOnce ==
    [][/\ output'.stage # "doAction" => actionHistory' = actionHistory
       /\ output'.stage = "doAction" =>
             /\ actionHistory' # <<>>
             /\ SubSeq(actionHistory', 1, Len(actionHistory') - 1)
                    \in {actionHistory} \cup
                        (IF actionHistory = <<>> THEN {} ELSE {Tail(actionHistory)})
             /\ LastEntry(actionHistory').result =
                    (IF output'.doAction = "returned" THEN "completed" ELSE "failed")
             /\ \A t \in Tasks :
                    (tasks[t].pc = "exec" /\ tasks'[t].pc # "exec")
                        => LastEntry(actionHistory').action = tasks[t].action
       /\ \A i \in 1..Len(actionHistory') :
             actionHistory'[i].result \in {"completed", "failed"}]_vars

\* A MINE_AT has just failed and is the newest entry, after a MOVE that
\* completed.
C16_Witness ==
    /\ output.stage = "doAction"
    /\ output.doAction = "threw"
    /\ Len(actionHistory) >= 2
    /\ actionHistory[Len(actionHistory) - 1].result = "completed"
    /\ actionHistory[Len(actionHistory) - 1].action.action = "MOVE"
    /\ LastEntry(actionHistory).result = "failed"
    /\ LastEntry(actionHistory).action.action = "MINE_AT"

\* C17: the history never holds more than maxHistory entries, and a doAction
\* call that ends leaves the most recent maxHistory entries in completion
\* order: the new entry last, the oldest one evicted if the cap was reached.
C17_HistoryCapped ==
    [][/\ Len(actionHistory') <= MaxHistory
       /\ output'.stage = "doAction" =>
             actionHistory' =
                 SliceLast(Append(actionHistory, LastEntry(actionHistory')),
                           MaxHistory)]_vars

\* A third Action has ended with a full history: the entry of the first
\* one was evicted, and the two left differ.
C17_Witness ==
    /\ output.stage = "doAction"
    /\ Len(actionHistory) = MaxHistory
    /\ actionCount >= 2 * (MaxHistory + 1)
    /\ actionHistory[1] # actionHistory[MaxHistory]

\* C18: the goals a pass starts are goals that passed its activation filter,
\* started in descending order of dynamic priority; none of them has a lower
\* dynamic priority than a filtered goal left out, and a filtered goal is
\* left out only when the active set is full.
C18_ActivationByPriority ==
    /\ Range(pass.order) \subseteq pass.eligible
    /\ \A i, j \in 1..Len(pass.order) :
          i < j => pass.priority[pass.order[i]] >= pass.priority[pass.order[j]]
    /\ \A g \in pass.eligible \ Range(pass.order) :
          /\ Len(goalSystem.activeGoals) = maxActiveGoals
          /\ \A h \in Range(pass.order) : pass.priority[h] >= pass.priority[g]

\* The latest pass had room for one goal: it started BuildShelterGoal,
\* whose dynamic priority a hostile mob raises to 5 in daylight, and left
\* out ExploreGoal, of priority 1, which had passed the filter too.
C18_Witness ==
    /\ pass.order = <<"BuildShelterGoal">>
    /\ pass.priority["BuildShelterGoal"] = 5
    /\ "ExploreGoal" \in pass.eligible
    /\ pass.priority["ExploreGoal"] = 1
    /\ Len(goalSystem.activeGoals) = maxActiveGoals

registrationOrder ==
    <<"SurvivalGoal", "MineTreeGoal", "BuildShelterGoal", "ExploreGoal">>

\* C20: of two goals that passed the activation filter of a pass with equal
\* dynamic priority, the one registered later is started only if the one
\* registered earlier is started before it.
C20_TieBreakByRegistration ==
    \A i, j \in 1..Len(registrationOrder) :
        LET g == registrationOrder[i]
            h == registrationOrder[j]
        IN  (/\ i < j
             /\ g \in pass.eligible
             /\ h \in pass.eligible
             /\ pass.priority[g] = pass.priority[h]
             /\ h \in Range(pass.order))
                => \E m, n \in 1..Len(pass.order) :
                       m < n /\ pass.order[m] = g /\ pass.order[n] = h

\* C21: the registry never holds two goals with the same name (registering a
\* name that is already registered leaves the registry as it was).
C21_RegisterIdempotent ==
    \A i, j \in 1..Len(goalSystem.goals) :
        goalSystem.goals[i] = goalSystem.goals[j] => i = j

\* C22: a doAction call that runs alone and is suspended on the Actuator has
\* not been running for longer than the (clamped) horizon of its Action.
C22_WaitEndsByHorizon ==
    \A t \in Tasks :
        (/\ Executing = {t}
         /\ actionStartTime # NoTime
         /\ Head(tasks[t].waits).on = "actuator")
            => now - actionStartTime <= horizonUnits(tasks[t].action)

\* Task t passes an Action to doAction in this step without having queried
\* the policy source in its cycle.
ExecutesFromEntry(t) ==
    /\ tasks[t].pc = "idle"
    /\ \/ tasks'[t].pc = "exec" /\ tasks'[t].by = "cycle"
       \/ tasks' = tasks /\ output'.handler = "cycle" /\ output'.doAction # "none"

\* Task t passes an Action to doAction in the step that takes the policy
\* source's answer.
ExecutesFromQuery(t) ==
    /\ tasks[t].pc = "llm"
    /\ tasks'[t].pc # "llm"
    /\ output'.stage # "policy"

C24_SkippedWhileInFlight ==
    [][isActionInProgress =>
          /\ \A t \in Tasks : ~CycleDecides(t)
          /\ (output'.handler = "cycle" /\ output'.stage = "entry") =>
                 /\ output'.result = "false"
                 /\ UNCHANGED <<currentAction, actionStartTime, actionHistory,
                                botIntelligence, recorded, actionCount, tasks>>]_vars

\* A cycle has just returned false at its entry, below the action limit,
\* while an invocation is suspended in doAction and the execution state is
\* set.
C24_Witness ==
    /\ output = Output("cycle", "entry", "false", "none")
    /\ isActionInProgress
    /\ actionCount < MaxActions
    /\ autoModeTimer
    /\ \E t \in Tasks : tasks[t].pc = "exec" /\ tasks[t].action = currentAction

\* The step is a call of updateActionMemory on its own (not the recording of
\* an override, which follows the reset of getIntelligentOverride).
Records ==
    /\ botIntelligence'.consecutiveActions # botIntelligence.consecutiveActions
    /\ botIntelligence'.lastLLMDecision \in MemoryObjects

\* C25: recording an object adds one to the counter of its key and sets the
\* counter of every other key to zero; when the key differs from the key
\* recorded before it, its counter is 1 afterwards.
C25_RecordCounts ==
    [][Records =>
          LET key == actionKey(botIntelligence'.lastLLMDecision)
              old == botIntelligence.consecutiveActions
              new == botIntelligence'.consecutiveActions
              memory == botIntelligence.actionMemory
          IN  /\ DOMAIN new = DOMAIN old \cup {key}
              /\ new[key] = (IF key \in DOMAIN old THEN old[key] ELSE 0) + 1
              /\ \A k \in DOMAIN new \ {key} : new[k] = 0
              /\ (memory # <<>> /\ memory[Len(memory)].key # key) => new[key] = 1]_vars

\* A key was recorded twice and then a different one: the new key counts 1,
\* the old one 0.
C25_Witness ==
    LET memory == botIntelligence.actionMemory
        counts == botIntelligence.consecutiveActions
    IN  /\ Len(memory) = 3
        /\ memory[1].key = memory[2].key
        /\ memory[2].key # memory[3].key
        /\ botIntelligence.lastLLMDecision \in MemoryObjects
        /\ counts[memory[3].key] = 1
        /\ counts[memory[1].key] = 0

\* The keys whose consecutive counter is not zero.
NonZeroKeys ==
    {k \in DOMAIN botIntelligence.consecutiveActions :
        botIntelligence.consecutiveActions[k] # 0}

\* C26: exactly one key has a non-zero consecutive counter.
C26_ExactlyOneNonZero == Cardinality(NonZeroKeys) = 1

\* C26, amended: at most one key has a non-zero consecutive counter, and
\* exactly one once something has been recorded.
C26_AtMostOneNonZero ==
    /\ Cardinality(NonZeroKeys) <= 1
    /\ botIntelligence.actionMemory # <<>> => Cardinality(NonZeroKeys) = 1

\* Three different keys have been recorded, an override was issued and
\* recorded, and one counter is not zero.
C26_Witness ==
    /\ Cardinality(DOMAIN botIntelligence.consecutiveActions) = 3
    /\ botIntelligence.shouldOverride
    /\ Cardinality(NonZeroKeys) = 1

\* C27: of the Actions in the memory, two of different kinds, or of the same
\* kind with different parameters, have different keys, and two with the
\* same kind and parameters have the same key.
C27_SignatureFromKindAndParameters ==
    \A i, j \in 1..Len(botIntelligence.actionMemory) :
        LET a == botIntelligence.actionMemory[i]
            b == botIntelligence.actionMemory[j]
            same == /\ a.action.action = b.action.action
                    /\ Field(a.action, "args") = Field(b.action, "args")
        IN  (validateAction(a.action) /\ validateAction(b.action)) =>
                (a.key = b.key <=> same)

\* C28: when the three most recent memory entries are GOTO Actions with the
\* same key, detectStuckBehavior reports stuck and the Action that
\* getIntelligentOverride then returns is not a GOTO.
C28_OverrideLeavesNavigation ==
    LET memory == botIntelligence.actionMemory
        recentActions == SliceLast(memory, stuckDetectionThreshold)
    IN  (/\ Len(recentActions) = stuckDetectionThreshold
         /\ \A i \in 1..Len(recentActions) :
               /\ Field(recentActions[i].action, "action") = "GOTO"
               /\ recentActions[i].key = recentActions[1].key)
            => /\ detectStuckBehavior(botIntelligence)
               /\ \A treesNearby \in BOOLEAN, firstRecent \in 1..(Len(memory) + 1) :
                     getIntelligentOverride(detectStuckBehaviorEffect(botIntelligence),
                                            treesNearby, firstRecent).ret.action # "GOTO"

\* C29: a call of getIntelligentOverride that returns an Action, from any
\* of its three branches, leaves every consecutive counter at zero and
\* isStuck false; a call that returns null leaves the counters and isStuck
\* as they were.  The call is made on the memory as it is and as
\* detectStuckBehavior leaves it.
C29_OverrideResets ==
    \A bi \in {botIntelligence, detectStuckBehaviorEffect(botIntelligence)},
       treesNearby \in BOOLEAN,
       firstRecent \in 1..(Len(botIntelligence.actionMemory) + 1) :
        LET call == getIntelligentOverride(bi, treesNearby, firstRecent)
        IN  IF call.ret # NoAction
            THEN /\ \A k \in DOMAIN call.bi.consecutiveActions :
                       call.bi.consecutiveActions[k] = 0
                 /\ ~call.bi.isStuck
            ELSE /\ call.bi.consecutiveActions = bi.consecutiveActions
                 /\ call.bi.isStuck = bi.isStuck

\* MINE_AT was recorded three times and its counter is 3: the call returns
\* the GOTO of the first branch, the MINE_TREE of the second or the GOTO of
\* the third, depending on the age of the entries and on the trees nearby.
C29_Witness ==
    LET stuck == detectStuckBehaviorEffect(botIntelligence)
        memory == botIntelligence.actionMemory
    IN  /\ stuck.isStuck
        /\ \E k \in DOMAIN botIntelligence.consecutiveActions :
              botIntelligence.consecutiveActions[k] = 3
        /\ recentMiningFailures(stuck, 1) >= 3
        /\ getIntelligentOverride(stuck, FALSE, 1).ret = OverrideGoto
        /\ getIntelligentOverride(stuck, TRUE, Len(memory) + 1).ret = OverrideMineTree
        /\ getIntelligentOverride(stuck, FALSE, Len(memory) + 1).ret = OverrideGoto

\* Task t runs a MINE_AT from the entry of doAction to its first await (or
\* to its return) in this step.
MinesAt(t) ==
    /\ tasks[t].pc = "idle"
    /\ \/ tasks'[t].pc = "exec"
       \/ tasks' = tasks /\ output'.stage = "doAction"

\* C30: a MINE_AT whose target block is at a distance of maxReach or more
\* fails before its first await with an out-of-range error: no invocation
\* is left waiting for bot.lookAt or the dig, /act answers 500 and the
\* history entry says failed.
C30_OutOfRangeFailsFast ==
    [][\A t \in Tasks :
          (/\ MinesAt(t)
           /\ mineAtFound'.block
           /\ mineAtFound'.distance >= maxReach)
              => /\ tasks' = tasks
                 /\ output' = Output("act", "doAction", "500", "threw")
                 /\ mineAtFound'.error \in
                        {"Cannot dig - block is not diggable or out of reach",
                         "Too far from block to mine"}
                 /\ LastEntry(actionHistory').result = "failed"]_vars

\* The extraction Actions among the last five memory entries, from index
\* firstRecent on, whose doAction call threw.
failedExtractions(firstRecent) ==
    LET memory == botIntelligence.actionMemory
        offset == Len(memory) - Len(SliceLast(memory, 5))
    IN  Cardinality({i \in (offset + 1)..Len(memory) :
            /\ Field(memory[i].action, "action") \in {"MINE_TREE", "MINE_AT"}
            /\ i >= firstRecent
            /\ outcomes[i] = "failed"})

\* C31: when stuck, getIntelligentOverride returns the relocation of its
\* first branch (a GOTO although tree blocks are nearby) only if at least
\* three of the recent memory entries are extraction Actions that failed,
\* and it returns the MINE_TREE of its second branch only if the condition
\* of the first branch does not hold.
C31_RelocationAfterFailures ==
    LET stuck == detectStuckBehaviorEffect(botIntelligence)
    IN  (stuck.isStuck /\ \A i \in 1..Len(outcomes) : outcomes[i] # "pending") =>
            \A firstRecent \in 1..(Len(botIntelligence.actionMemory) + 1) :
                LET ret == getIntelligentOverride(stuck, TRUE, firstRecent).ret
                IN  /\ ret = OverrideGoto => failedExtractions(firstRecent) >= 3
                    /\ ret = OverrideMineTree =>
                           recentMiningFailures(stuck, firstRecent) < 3

\* C32: the MINE_TREE that getIntelligentOverride returns targets a tree
\* block that is nearest to the bot among the tree blocks the scan found.
C32_NearestTreeBlock ==
    scanned.target # <<>> =>
        \A b \in scanned.trees :
            scanned.target[1] * scanned.target[1]
              + scanned.target[2] * scanned.target[2]
              + scanned.target[3] * scanned.target[3]
                <= b[1] * b[1] + b[2] * b[2] + b[3] * b[3]

\* C33: the GOTO poll rejects with the blocked-path error only after an
\* earlier poll has tried to unstuck and a further stall window has passed:
\* never in the poll that makes the first unstuck attempt.
C33_BlockedOnlyAfterRetry ==
    movement.promise = "blocked" => movement.unstucks >= 2

\* C34: at the end of every pass of GoalSelector.tick a goal is in the active
\* set if and only if it is active (isActive), also when a goal stopped
\* itself inside its own tick.
C34_ActiveSetIffActive ==
    [][goalSystem'.lastTickTime # goalSystem.lastTickTime
          => \A g \in GoalNames :
                g \in Range(goalSystem'.activeGoals) <=> goal'[g].isActive]_vars

\* C35: at most one call of MineTreeGoal.mineTree is in progress at any
\* time.
C35_OneMineTree == goalLocal.mining <= 1

\* C36: a goal commands the Actuator only while it is active: once
\* MineTreeGoal is stopped, no mineTree call begun by an earlier tick issues
\* a further approach, look, equip or dig command.
C36_CommandsOnlyWhileActive == output.result # "stopped"

\* C37: a goal that a pass of GoalSelector.tick stops because its
\* persistence timeout has passed is not started again by that same pass.
C37_TimedOutNotRestarted == pass.expired \cap pass.started = {}

\* C38: once stopAutoMode has returned (and auto mode has not been started
\* again), the Decision Cycle passes no further Action to doAction, also
\* not from a cycle that was awaiting the policy source's answer when auto
\* mode was stopped.
C38_NoExecutionAfterStop ==
    [][~autoModeTimer => \A t \in Tasks : ~ExecutesFromQuery(t)]_vars

\* C39: every activation of ExploreGoal, the second and later ones included,
\* issues a navigation command toward its exploration target on its first
\* tick after start: the pass that starts and ticks the goal finds isMoving
\* false and moveToTarget sets the path goal and isMoving.
C39_ActivationNavigates ==
    [][(/\ goalSystem'.lastTickTime # goalSystem.lastTickTime
        /\ "ExploreGoal" \in pass'.started
        /\ "ExploreGoal" \in pass'.ticked)
          => ~goalLocal.isMoving /\ goalLocal'.isMoving]_vars

\* C40: the actionNumber values of the history entries are pairwise distinct
\* and strictly increasing in append order, also after old entries have
\* been evicted.
C40_ActionNumbersIncrease ==
    \A i \in 1..Len(actionHistory), j \in 1..Len(actionHistory) :
        i < j => actionHistory[i].actionNumber < actionHistory[j].actionNumber

====
